---- MODULE Spec2Model ----
(***************************************************************************)
(* Model of deepali.core.grid.Grid (src/src/deepali/core/grid.py): the     *)
(* attribute model, the coordinate-space transform algebra and the         *)
(* size-mutation family.                                                   *)
(*                                                                         *)
(* Numbers.  A torch float is modelled as an exact rational <<n, d>> in    *)
(* lowest terms with d > 0, extended with the IEEE specials                *)
(*   <<1, 0>> = +inf,  <<-1, 0>> = -inf,  <<0, 0>> = nan,                  *)
(* so that a division by zero in the code is a value of the model and not  *)
(* an error of the model.  Rounding error of float32 is not modelled (it   *)
(* is orders of magnitude below the allclose tolerances the code uses);    *)
(* negative zero is not modelled.                                          *)
(* A 1-d tensor is a sequence of numbers, a matrix a sequence of rows.     *)
(***************************************************************************)
EXTENDS Integers, Sequences, FiniteSets, TLC

VARIABLES grid, call, ncalls

vars == <<grid, call, ncalls>>

---------------------------------------------------------------------------
(* Bounds of the model                                                     *)

MaxSize == 3
MaxLevels == 2
MaxMargin == 2
MaxCalls == 1

---------------------------------------------------------------------------
(* torch scalar arithmetic on extended rationals                           *)

Abs(n) == IF n < 0 THEN -n ELSE n

Sgn(n) == IF n > 0 THEN 1 ELSE IF n < 0 THEN -1 ELSE 0

RECURSIVE Gcd(_, _)
Gcd(a, b) == IF b = 0 THEN a ELSE Gcd(b, a % b)

Q(n, d) ==
    IF d = 0 THEN <<Sgn(n), 0>>
    ELSE LET g == Gcd(Abs(n), Abs(d))
         IN  <<Sgn(d) * Sgn(n) * (Abs(n) \div g), Abs(d) \div g>>

I(n) == <<n, 1>>

NaN == <<0, 0>>

isnan(x) == x = NaN

isfinite(x) == x[2] # 0

neg(x) == <<-x[1], x[2]>>

add(x, y) ==
    IF x[2] = 0 /\ y[2] = 0
    THEN IF x = y THEN x ELSE NaN
    ELSE Q(x[1] * y[2] + y[1] * x[2], x[2] * y[2])

sub(x, y) == add(x, neg(y))

mul(x, y) == Q(x[1] * y[1], x[2] * y[2])

div(x, y) ==
    IF y[1] < 0 THEN Q(-(x[1] * y[2]), x[2] * (-y[1]))
    ELSE Q(x[1] * y[2], x[2] * y[1])

abs(x) == <<Abs(x[1]), x[2]>>

\* x < y as IEEE compares: false whenever an operand is nan
lt(x, y) ==
    /\ ~isnan(x)
    /\ ~isnan(y)
    /\ IF x[2] = 0 /\ y[2] = 0 THEN x[1] < y[1]
       ELSE x[1] * y[2] < y[1] * x[2]

eq(x, y) == ~isnan(x) /\ ~isnan(y) /\ x = y

le(x, y) == lt(x, y) \/ eq(x, y)

gt(x, y) == lt(y, x)

ge(x, y) == le(y, x)

ceil(x) == IF x[2] = 0 THEN x ELSE I(-((-x[1]) \div x[2]))

floor(x) == IF x[2] = 0 THEN x ELSE I(x[1] \div x[2])

\* torch.clamp(x, min=m): nan stays nan
clamp_min(x, m) == IF lt(x, m) THEN m ELSE x

\* One element of torch.allclose(a, b, rtol=1e-5, atol=1e-8):
\*   |a - b| <= atol + rtol * |b|, equal infinities are close, nan never is.
\* With |a - b| = p/q and |b| = r/s the test is
\*   p*s*10^8 <= q*s + 1000*r*q, evaluated without leaving 32 bits.
isclose(a, b) ==
    IF isnan(a) \/ isnan(b) THEN FALSE
    ELSE IF a = b THEN TRUE
    ELSE IF ~isfinite(a) \/ ~isfinite(b) THEN FALSE
    ELSE LET df == abs(sub(a, b))
             ab == abs(b)
             X  == df[1] * ab[2]
             Y  == df[2] * ab[2]
             Z  == ab[1] * df[2]
         IN  X <= ((Y \div 1000) + Z) \div 100000

---------------------------------------------------------------------------
(* torch tensor operations                                                 *)

Axis(v) == 1..Len(v)

vec(n, x) == [i \in 1..n |-> x]

vadd(u, v) == [i \in Axis(u) |-> add(u[i], v[i])]

vsub(u, v) == [i \in Axis(u) |-> sub(u[i], v[i])]

vmul(u, v) == [i \in Axis(u) |-> mul(u[i], v[i])]

vdiv(u, v) == [i \in Axis(u) |-> div(u[i], v[i])]

vneg(u) == [i \in Axis(u) |-> neg(u[i])]

vscale(c, u) == [i \in Axis(u) |-> mul(c, u[i])]

allclose(u, v) == \A i \in Axis(u) : isclose(u[i], v[i])

RECURSIVE dot(_, _, _)
dot(u, v, k) == IF k = 0 THEN I(0) ELSE add(dot(u, v, k - 1), mul(u[k], v[k]))

\* torch.matmul(M, v)
matmul(M, v) == [i \in Axis(M) |-> dot(M[i], v, Len(v))]

col(M, j) == [i \in Axis(M) |-> M[i][j]]

\* torch.mm(A, B)
mm(A, B) == [i \in Axis(A) |-> [j \in Axis(B[1]) |-> dot(A[i], col(B, j), Len(B))]]

diag(v) == [i \in Axis(v) |-> [j \in Axis(v) |-> IF i = j THEN v[i] ELSE I(0)]]

eye(n) == diag(vec(n, I(1)))

t(M) == [i \in Axis(M) |-> col(M, i)]

flatten(M) == [k \in 1..(Len(M) * Len(M)) |->
                 M[((k - 1) \div Len(M)) + 1][((k - 1) % Len(M)) + 1]]

reshape(f, n) == [i \in 1..n |-> [j \in 1..n |-> f[(i - 1) * n + j]]]

mallclose(A, B) == \A i \in Axis(A) : allclose(A[i], B[i])

\* Tensor.det() of a 1x1, 2x2 or 3x3 matrix
det(M) ==
    IF Len(M) = 1 THEN M[1][1]
    ELSE IF Len(M) = 2
    THEN sub(mul(M[1][1], M[2][2]), mul(M[1][2], M[2][1]))
    ELSE add(sub(mul(M[1][1], sub(mul(M[2][2], M[3][3]), mul(M[2][3], M[3][2]))),
                 mul(M[1][2], sub(mul(M[2][1], M[3][3]), mul(M[2][3], M[3][1])))),
             mul(M[1][3], sub(mul(M[2][1], M[3][2]), mul(M[2][2], M[3][1]))))

---------------------------------------------------------------------------
(* Python values: None, results and raised exceptions                      *)

None == <<>>

Some(x) == <<x>>

NoGrid == [size |-> <<>>, spacing |-> <<>>, center |-> <<>>,
           direction |-> <<>>, align_corners |-> FALSE]

\* a call returned the Grid g; same: g is the receiver object itself
Ok(g, same) == [kind |-> "grid", err |-> "", grid |-> g, same |-> same, val |-> <<>>]

\* a call returned a value that is no Grid (a tensor, an array, a dict)
Val(kind, v) == [kind |-> kind, err |-> "", grid |-> NoGrid, same |-> FALSE, val |-> v]

\* a call raised the exception e
Raise(e) == [kind |-> "error", err |-> e, grid |-> NoGrid, same |-> FALSE, val |-> <<>>]

\* bool(x) of an align_corners argument: x is "True", "False", or the bound
\* method Grid.align_corners, which is truthy like every method object
bool(x) == x # "False"

str(b) == IF b THEN "True" ELSE "False"

---------------------------------------------------------------------------
(* Grid attributes                                                         *)

ndim(g) == Len(g.size)

_round_size(size) == [i \in Axis(size) |-> IF eq(size[i], I(0)) THEN I(0) ELSE ceil(size[i])]

size_tensor(g) == _round_size(g.size)

extent(g) == vmul(g.spacing, size_tensor(g))

cube_extent(g) ==
    LET n == size_tensor(g)
    IN  vmul(g.spacing, IF g.align_corners THEN [i \in Axis(n) |-> sub(n[i], I(1))] ELSE n)

affine(g) == mm(g.direction, diag(g.spacing))

inverse_affine(g) == mm(diag([i \in Axis(g.spacing) |-> div(I(1), g.spacing[i])]), t(g.direction))

\* offset of the centre from the point of index zero, in grid units
center_offset(g) ==
    LET size == size_tensor(g)
    IN  [i \in Axis(size) |->
            div(IF gt(size[i], I(0)) THEN sub(size[i], I(1)) ELSE size[i], I(2))]

origin(g) == vsub(g.center, matmul(affine(g), center_offset(g)))

origin_(g, org) == [g EXCEPT !.center = vadd(org, matmul(affine(g), center_offset(g)))]

spacing_ok(spacing) == ~(\E i \in Axis(spacing) : le(spacing[i], I(0)))

\* direction_: arg is [flat |-> BOOLEAN, val |-> sequence or matrix]
direction_shape_ok(D, arg) ==
    IF arg.flat THEN Len(arg.val) = D * D
    ELSE Len(arg.val) = D /\ \A i \in 1..Len(arg.val) : Len(arg.val[i]) = D

direction_matrix(D, arg) == IF arg.flat THEN reshape(arg.val, D) ELSE arg.val

\* abs(direction.det().abs().item() - 1) > 1e-4 raises
direction_det_ok(M) == ~gt(abs(sub(abs(det(M)), I(1))), Q(1, 10000))

\* __eq__ comparing the align_corners flags as well
eq_mut(g, h) ==
    /\ Len(g.size) = Len(h.size)
    /\ allclose(g.size, h.size)
    /\ allclose(g.center, h.center)
    /\ allclose(g.spacing, h.spacing)
    /\ mallclose(g.direction, h.direction)
    /\ g.align_corners = h.align_corners

\* Grid.__eq__ on the attributes (align_corners is skipped); the shortcut
\* "other is self" gives the same answer for grids without nan attributes
__eq__(g, h) ==
    /\ Len(g.size) = Len(h.size)
    /\ allclose(g.size, h.size)
    /\ allclose(g.center, h.center)
    /\ allclose(g.spacing, h.spacing)
    /\ mallclose(g.direction, h.direction)

\* an Array argument: a torch.Tensor or another sequence, val its items
array(is_tensor, val) == [tensor |-> is_tensor, val |-> val]

\* Grid(size=, spacing=, direction=, center=, origin=, align_corners=):
\* spacing, direction, center and origin are None or Some(value); origin is
\* an array(), because torch.allclose(origin, self.origin()) is given the
\* argument as it was passed and raises TypeError unless it is a Tensor
__init__(size, spacing, direction, center, org, align_corners) ==
    LET D  == Len(size)
        sz == [i \in 1..D |-> clamp_min(size[i], I(0))]
        sp == IF spacing = None THEN vec(D, I(1)) ELSE spacing[1]
        dr == IF direction = None THEN [flat |-> FALSE, val |-> eye(D)] ELSE direction[1]
    IN  IF D = 0 THEN Raise("ValueError")
        ELSE IF ~spacing_ok(sp) THEN Raise("ValueError")
        ELSE IF ~direction_shape_ok(D, dr) THEN Raise("ValueError")
        ELSE IF ~direction_det_ok(direction_matrix(D, dr)) THEN Raise("ValueError")
        ELSE LET g0 == [size |-> sz, spacing |-> sp, center |-> vec(D, I(0)),
                        direction |-> direction_matrix(D, dr),
                        align_corners |-> bool(align_corners)]
             IN  IF org = None
                 THEN Ok([g0 EXCEPT !.center = IF center = None THEN vec(D, I(0))
                                                ELSE center[1]], FALSE)
                 ELSE IF center = None
                 THEN Ok(origin_(g0, org[1].val), FALSE)
                 ELSE LET g1 == [g0 EXCEPT !.center = center[1]]
                      IN  IF ~org[1].tensor THEN Raise("TypeError")
                          ELSE IF allclose(org[1].val, origin(g1)) THEN Ok(g1, FALSE)
                          ELSE Raise("ValueError")

---------------------------------------------------------------------------
(* Coordinate-space transform algebra                                      *)
(* A transform is [lin |-> DxD matrix, off |-> D-vector, hom |-> BOOLEAN]; *)
(* hom says the tensor has the translation column (shape D x (D+1)); a     *)
(* D x D tensor has off = 0 and hom = FALSE.                               *)

GRID == "grid"

CUBE == "cube"

CUBE_CORNERS == "cube_corners"

WORLD == "world"

Axes == {GRID, CUBE, CUBE_CORNERS, WORLD}

linear(M) == [lin |-> M, off |-> vec(Len(M), I(0)), hom |-> FALSE]

homogeneous_matrix(M, offset) == [lin |-> M, off |-> offset, hom |-> TRUE]

translation(v) == [lin |-> eye(Len(v)), off |-> v, hom |-> TRUE]

\* hmm(a, b): the homogeneous transform "a after b", always D x (D+1)
hmm(a, b) ==
    [lin |-> mm(a.lin, b.lin), off |-> vadd(matmul(a.lin, b.off), a.off), hom |-> TRUE]

\* homogeneous_transform(matrix, points)
homogeneous_transform(T, x) == vadd(matmul(T.lin, x), T.off)

\* Grid.transform, same grid, axes is to_axes
\* the identity in homogeneous form whatever vectors is
transform_identity_mut(g, vectors) == homogeneous_matrix(eye(ndim(g)), vec(ndim(g), I(0)))

transform_identity(g, vectors) ==
    IF vectors THEN linear(eye(ndim(g)))
    ELSE homogeneous_matrix(eye(ndim(g)), vec(ndim(g), I(0)))

\* matrix = None: no rule of Grid.transform applies
NoMatrix == [lin |-> <<>>, off |-> <<>>, hom |-> FALSE]

\* Grid.transform, same grid, the pairs the code has a rule of its own for
transform_rule(g, axes, to_axes, vectors) ==
    LET size == size_tensor(g)
        D    == ndim(g)
        one  == vec(D, I(1))
        two  == vec(D, I(2))
    IN  IF axes = GRID /\ to_axes = CUBE
        THEN IF vectors THEN linear(diag(vdiv(two, size)))
             ELSE homogeneous_matrix(diag(vdiv(two, size)), vsub(vdiv(one, size), one))
        ELSE IF axes = GRID /\ to_axes = CUBE_CORNERS
        THEN IF vectors THEN linear(diag(vdiv(two, vsub(size, one))))
             ELSE homogeneous_matrix(diag(vdiv(two, vsub(size, one))), vec(D, I(-1)))
        ELSE IF axes = GRID /\ to_axes = WORLD
        THEN IF vectors THEN linear(affine(g))
             ELSE homogeneous_matrix(affine(g), origin(g))
        ELSE IF axes = CUBE /\ to_axes = CUBE_CORNERS
        THEN linear(diag(vdiv(size, vsub(size, one))))
        ELSE IF axes = CUBE /\ to_axes = GRID
        THEN LET half_size == vscale(Q(1, 2), size)
             IN  IF vectors THEN linear(diag(half_size))
                 ELSE homogeneous_matrix(diag(half_size), vsub(half_size, vec(D, Q(1, 2))))
        ELSE IF axes = CUBE_CORNERS /\ to_axes = CUBE
        THEN linear(diag(vdiv(vsub(size, one), size)))
        ELSE IF axes = CUBE_CORNERS /\ to_axes = GRID
        THEN LET scales == vscale(Q(1, 2), vsub(size, one))
             IN  IF vectors THEN linear(diag(scales))
                 ELSE homogeneous_matrix(diag(scales), scales)
        ELSE IF axes = WORLD /\ to_axes = GRID
        THEN IF vectors THEN linear(inverse_affine(g))
             ELSE hmm(linear(inverse_affine(g)), translation(vneg(origin(g))))
        ELSE NoMatrix

\* torch.mm for vectors, hmm for points
compose(a, b, vectors) == IF vectors THEN linear(mm(a.lin, b.lin)) ELSE hmm(a, b)

\* Grid.transform with to_grid None or equal to self
transform_same(g, axes, to_axes, vectors) ==
    IF axes = to_axes THEN transform_identity(g, vectors)
    ELSE IF (axes \in {CUBE, CUBE_CORNERS} /\ to_axes = WORLD)
            \/ (axes = WORLD /\ to_axes \in {CUBE, CUBE_CORNERS})
    THEN compose(transform_rule(g, GRID, to_axes, vectors),
                 transform_rule(g, axes, GRID, vectors), vectors)
    ELSE transform_rule(g, axes, to_axes, vectors)

\* Grid.transform which ignores to_grid
transform_mut(g, axes, to_axes, to_grid, vectors) ==
    IF axes = None /\ to_axes = None /\ to_grid = None
    THEN Val("tensor", transform_same(g, IF g.align_corners THEN CUBE_CORNERS ELSE CUBE,
                                      WORLD, vectors))
    ELSE IF axes = None THEN Raise("ValueError")
    ELSE LET m == transform_same(g, axes[1], IF to_axes = None THEN axes[1] ELSE to_axes[1],
                                 vectors)
         IN  IF m.lin = <<>> THEN Raise("NotImplementedError") ELSE Val("tensor", m)

\* Grid.transform(axes, to_axes, to_grid, vectors): axes, to_axes and to_grid
\* are None or Some(value)
transform(g, axes, to_axes, to_grid, vectors) ==
    IF axes = None /\ to_axes = None /\ to_grid = None
    THEN Val("tensor", transform_same(g, IF g.align_corners THEN CUBE_CORNERS ELSE CUBE,
                                      WORLD, vectors))
    ELSE IF axes = None THEN Raise("ValueError")
    ELSE LET a == axes[1]
             b == IF to_axes = None THEN a ELSE to_axes[1]
         IN  IF to_grid = None \/ __eq__(to_grid[1], g)
             THEN LET m == transform_same(g, a, b, vectors)
                  IN  IF m.lin = <<>> THEN Raise("NotImplementedError") ELSE Val("tensor", m)
             ELSE IF ndim(to_grid[1]) # ndim(g) THEN Raise("ValueError")
             ELSE Val("tensor", compose(transform_same(to_grid[1], WORLD, b, vectors),
                                        transform_same(g, a, WORLD, vectors), vectors))

\* Grid.index_to_world(indices): transform_points(GRID -> WORLD); the default
\* decimals=-1 rounds nothing when the target is WORLD
index_to_world(g, indices) ==
    homogeneous_transform(transform(g, Some(GRID), Some(WORLD), None, FALSE).val, indices)

---------------------------------------------------------------------------
(* Size-mutation family                                                    *)

\* Grid._resize(size, align_corners): align_corners is None or Some(BOOLEAN)
_resize(g, size, align_corners) ==
    LET ac    == IF align_corners = None THEN g.align_corners ELSE align_corners[1]
        rs    == _round_size(size)
        one   == vec(ndim(g), I(1))
        sp    == IF ac THEN vdiv(vsub(extent(g), g.spacing), vsub(rs, one))
                 ELSE vdiv(extent(g), rs)
        new   == [g EXCEPT !.size = size,
                           !.spacing = [i \in Axis(size) |->
                               IF gt(g.size[i], I(0)) THEN sp[i] ELSE g.spacing[i]]]
    IN  IF \A i \in Axis(size) : eq(size[i], g.size[i]) THEN Ok(g, TRUE)
        ELSE IF ac
        THEN IF allclose(origin(new), origin(g)) THEN Ok(new, FALSE)
             ELSE Raise("AssertionError")
        ELSE IF allclose(extent(new), extent(g)) THEN Ok(new, FALSE)
             ELSE Raise("AssertionError")

\* a tensor argument: its dtype is an integer dtype or not, val its items
tensor(int, val) == [int |-> int, val |-> val]

\* cat_scalars(arg, num=ndim): a scalar is repeated for every axis
cat_scalars(arg, num) == IF Len(arg.val) = 1 THEN tensor(arg.int, vec(num, arg.val[1])) ELSE arg

\* Grid.resize(size, align_corners=)
resize(g, size, align_corners) ==
    LET sz == cat_scalars(size, ndim(g))
    IN  IF ~sz.int THEN Raise("TypeError")
        ELSE IF \E i \in Axis(sz.val) : lt(sz.val[i], I(0)) THEN Raise("ValueError")
        ELSE _resize(g, sz.val, align_corners)

RECURSIVE ipow2(_)
ipow2(k) == IF k <= 0 THEN 1 ELSE 2 * ipow2(k - 1)

\* 2**levels for a Python int levels
pow2(levels) == IF levels >= 0 THEN I(ipow2(levels)) ELSE Q(1, ipow2(-levels))

\* the axes a dims argument selects: all of them when dims is empty or None
selected(g, dims) == IF dims = {} THEN 0..(ndim(g) - 1) ELSE dims

\* downsample resizing as under align_corners=False, which doubles the spacing
downsample_mut(g, levels, dims, min_size, ac) ==
    _resize(g, [i \in Axis(g.size) |->
                  IF (i - 1) \in selected(g, dims) THEN div(g.size[i], pow2(levels))
                  ELSE g.size[i]], Some(FALSE))

\* Grid.downsample(levels, dims, min_size, align_corners)
downsample(g, levels, dims, min_size, align_corners) ==
    LET scale == pow2(levels)
        size  == [i \in Axis(g.size) |->
                    IF (i - 1) \in selected(g, dims) THEN div(g.size[i], scale) ELSE g.size[i]]
    IN  _resize(g, [i \in Axis(size) |-> IF ge(size[i], I(min_size)) THEN size[i]
                                          ELSE g.size[i]], align_corners)

\* Grid.upsample(levels, dims, align_corners)
upsample(g, levels, dims, align_corners) ==
    LET scale == pow2(levels)
    IN  _resize(g, [i \in Axis(g.size) |->
                      IF (i - 1) \in selected(g, dims) THEN mul(g.size[i], scale)
                      ELSE g.size[i]], align_corners)

\* int(n) for n in self.size()
size(g) == [i \in Axis(g.size) |-> size_tensor(g)[i][1]]

\* sizes[0][dim] of Grid.pyramid after the loop that fills the finer levels
\* from the coarsest one: n is the original size, m the align_corners margin
pyramid_finest(n, m, levels) ==
    LET coarsest == (2 * (n + m) + ipow2(levels)) \div (2 * ipow2(levels))
        RECURSIVE back(_)
        back(level) == IF level = levels THEN coarsest ELSE 2 * back(level + 1) - 1
    IN  back(0)

\* the size of the finest level at every level
pyramid_size_mut(n, m, levels, min_size, level) == pyramid_finest(n, m, levels)

\* sizes[level][dim] of Grid.pyramid for an axis in dims
RECURSIVE pyramid_size(_, _, _, _, _)
pyramid_size(n, m, levels, min_size, level) ==
    IF level = 0 THEN pyramid_finest(n, m, levels)
    ELSE LET prev == pyramid_size(n, m, levels, min_size, level - 1)
             half == (prev + 1) \div 2
         IN  IF half < min_size THEN prev ELSE half

\* Grid.pyramid(levels, dims, min_size), levels >= 0: a dict level -> result
\* of self.resize(size); the first resize that raises ends the call
pyramid(g, levels, dims, min_size) ==
    LET m     == IF g.align_corners THEN ipow2(levels) - 1 ELSE 0
        sizes == [level \in 0..levels |-> [i \in Axis(g.size) |->
                    IF (i - 1) \in selected(g, dims)
                    THEN I(pyramid_size(size(g)[i], m, levels, min_size, level))
                    ELSE I(size(g)[i])]]
        res   == [level \in 0..levels |-> resize(g, tensor(TRUE, sizes[level]), None)]
        bad   == {level \in 0..levels : res[level].kind = "error"}
    IN  IF bad = {} THEN Val("dict", res)
        ELSE Raise(res[CHOOSE level \in bad : \A other \in bad : level <= other].err)

\* Python arguments that are an int or a sequence of ints
pyint(n) == [int |-> TRUE, val |-> <<n>>]

pyseq(s) == [int |-> FALSE, val |-> s]

\* The head of Grid.crop and Grid.pad: args (positional), margin and num
\* (None or Some) become the tuple num, two counts per axis.
\* [err |-> exception or "", same |-> return self, num |-> tuple]
border_num(g, args, margin, num) ==
    LET given == (IF args # <<>> THEN 1 ELSE 0) + (IF num # None THEN 1 ELSE 0)
                 + (IF margin # None THEN 1 ELSE 0)
        m1 == IF Len(args) = 1 /\ ~args[1].int THEN Some(args[1])
              ELSE IF args # <<>> THEN Some(pyseq([i \in 1..Len(args) |-> args[i].val[1]]))
              ELSE margin
        n1 == IF m1 # None /\ m1[1].int THEN m1[1]
              ELSE IF m1 # None
              THEN pyseq([k \in 1..(2 * Len(m1[1].val)) |-> m1[1].val[(k + 1) \div 2]])
              ELSE num[1]
        n2 == IF n1.int THEN [k \in 1..(2 * ndim(g)) |-> n1.val[1]] ELSE n1.val
        n3 == [k \in 1..(2 * ndim(g)) |-> IF k <= Len(n2) THEN n2[k] ELSE 0]
    IN  IF given # 1 THEN [err |-> "AssertionError", same |-> FALSE, num |-> <<>>]
        ELSE IF Len(n2) % 2 # 0 THEN [err |-> "ValueError", same |-> FALSE, num |-> <<>>]
        ELSE IF \A k \in 1..Len(n2) : n2[k] = 0 THEN [err |-> "", same |-> TRUE, num |-> n2]
        ELSE IF Len(n2) > 2 * ndim(g) THEN [err |-> "RuntimeError", same |-> FALSE, num |-> <<>>]
        ELSE [err |-> "", same |-> FALSE, num |-> n3]

\* Grid.crop(*args, margin=, num=)
crop(g, args, margin, num) ==
    LET b  == border_num(g, args, margin, num)
        lo == [i \in Axis(g.size) |-> I(b.num[2 * i - 1])]
        hi == [i \in Axis(g.size) |-> I(b.num[2 * i])]
        sz == [i \in Axis(g.size) |->
                 IF gt(g.size[i], I(0))
                 THEN clamp_min(sub(sub(g.size[i], lo[i]), hi[i]), I(1)) ELSE g.size[i]]
    IN  IF b.err # "" THEN Raise(b.err)
        ELSE IF b.same THEN Ok(g, TRUE)
        ELSE __init__(sz, Some(g.spacing), Some([flat |-> FALSE, val |-> g.direction]),
                      None, Some(array(TRUE, index_to_world(g, lo))), "bound method")

\* pad with the origin at index low instead of -low
pad_mut(g, args, margin, num) ==
    LET b  == border_num(g, args, margin, num)
        lo == [i \in Axis(g.size) |-> I(b.num[2 * i - 1])]
        hi == [i \in Axis(g.size) |-> I(b.num[2 * i])]
        sz == [i \in Axis(g.size) |->
                 IF gt(g.size[i], I(0))
                 THEN clamp_min(add(add(g.size[i], lo[i]), hi[i]), I(1)) ELSE g.size[i]]
    IN  IF b.err # "" THEN Raise(b.err)
        ELSE IF b.same THEN Ok(g, TRUE)
        ELSE __init__(sz, Some(g.spacing), Some([flat |-> FALSE, val |-> g.direction]),
                      None, Some(array(TRUE, index_to_world(g, lo))),
                      "bound method")

\* Grid.pad(*args, margin=, num=)
pad(g, args, margin, num) ==
    LET b  == border_num(g, args, margin, num)
        lo == [i \in Axis(g.size) |-> I(b.num[2 * i - 1])]
        hi == [i \in Axis(g.size) |-> I(b.num[2 * i])]
        sz == [i \in Axis(g.size) |->
                 IF gt(g.size[i], I(0))
                 THEN clamp_min(add(add(g.size[i], lo[i]), hi[i]), I(1)) ELSE g.size[i]]
    IN  IF b.err # "" THEN Raise(b.err)
        ELSE IF b.same THEN Ok(g, TRUE)
        ELSE __init__(sz, Some(g.spacing), Some([flat |-> FALSE, val |-> g.direction]),
                      None, Some(array(TRUE, index_to_world(g, vneg(lo)))),
                      "bound method")

---------------------------------------------------------------------------
(* Serialization                                                           *)

\* Grid.numpy()
numpy(g) == g.size \o g.spacing \o g.center \o flatten(g.direction)

\* from_seq reading the center from the spacing block
from_seq_mut(attrs, org, align_corners) ==
    LET d == IF Len(attrs) = 10 THEN 2 ELSE 3
        third == Some(SubSeq(attrs, d + 1, 2 * d))
    IN  IF Len(attrs) \notin {10, 18} THEN Raise("ValueError")
        ELSE __init__(SubSeq(attrs, 1, d), Some(SubSeq(attrs, d + 1, 2 * d)),
                      Some([flat |-> TRUE, val |-> SubSeq(attrs, 3 * d + 1, Len(attrs))]),
                      IF org THEN None ELSE third,
                      IF org THEN Some(array(FALSE, third[1])) ELSE None,
                      align_corners)

\* Grid.from_seq(attrs, origin=, align_corners=)
from_seq(attrs, org, align_corners) ==
    LET d == IF Len(attrs) = 10 THEN 2 ELSE 3
        third == Some(SubSeq(attrs, 2 * d + 1, 3 * d))
    IN  IF Len(attrs) \notin {10, 18} THEN Raise("ValueError")
        ELSE __init__(SubSeq(attrs, 1, d), Some(SubSeq(attrs, d + 1, 2 * d)),
                      Some([flat |-> TRUE, val |-> SubSeq(attrs, 3 * d + 1, Len(attrs))]),
                      IF org THEN None ELSE third,
                      IF org THEN Some(array(FALSE, third[1])) ELSE None,
                      align_corners)

---------------------------------------------------------------------------
(* The state machine: a grid is constructed, then methods are called on it.
   A call that returns a grid makes that grid the current one; call keeps
   the last call with its receiver, arguments and outcome.                 *)

\* spacing, center and direction given to the constructor, per dimension
SP == <<I(2), Q(1, 2), I(3)>>

CT == <<I(1), I(-2), Q(1, 2)>>

R90 == <<<<I(0), I(-1)>>, <<I(1), I(0)>>>>

Cyc == <<<<I(0), I(0), I(1)>>, <<I(1), I(0), I(0)>>, <<I(0), I(1), I(0)>>>>

Shear == <<<<I(1), I(1)>>, <<I(0), I(1)>>>>

ints(s) == [i \in 1..Len(s) |-> I(s[i])]

Sizes2 == {s \in [1..2 -> 0..MaxSize] : s[2] \in {s[1], MaxSize}}

CtorArgs ==
    [size : {ints(s) : s \in Sizes2}, direction : {None}, align_corners : {"True", "False"}]
    \cup [size : {ints(s) : s \in {r \in Sizes2 : r[1] # r[2]}} \cup {<<I(2), I(2)>>},
          direction : {Some([flat |-> FALSE, val |-> R90])}, align_corners : {"True", "False"}]
    \cup [size : {<<I(MaxSize)>>}, direction : {None}, align_corners : {"True", "False"}]
    \cup [size : {<<I(1), I(2), I(MaxSize)>>}, direction : {Some([flat |-> FALSE, val |-> Cyc])},
          align_corners : {"True", "False"}]
    \cup [size : {<<Q(5, 2), I(MaxSize)>>}, direction : {None}, align_corners : {"True", "False"}]
    \cup [size : {<<I(2 * MaxSize - 2), I(2 * MaxSize + 2)>>}, direction : {None},
          align_corners : {"True", "False"}]

Construct(a) ==
    __init__(a.size, Some(SubSeq(SP, 1, Len(a.size))), a.direction,
             Some(SubSeq(CT, 1, Len(a.size))), None, a.align_corners)

TypeOK ==
    /\ grid.size \in Seq(Int \X Int)
    /\ call.name \in STRING
    /\ ncalls \in 0..MaxCalls

Init ==
    /\ \E a \in CtorArgs :
         /\ Construct(a).kind = "grid"
         /\ grid = Construct(a).grid
         /\ call = [name |-> "Grid", self |-> NoGrid, args |-> a, out |-> Construct(a)]
    /\ ncalls = 0

\* one method call on the current grid
Call(name, args, out) ==
    /\ ncalls < MaxCalls
    /\ ncalls' = ncalls + 1
    /\ call' = [name |-> name, self |-> grid, args |-> args, out |-> out]
    /\ grid' = IF call'.out.kind = "grid" THEN call'.out.grid ELSE grid

DimsArgs == {{}, {0}}

ResizeArgs ==
    {tensor(TRUE, <<I(n)>>) : n \in -1..(MaxSize + 1)}
    \cup {tensor(TRUE, <<I(1), I(MaxSize)>>), tensor(FALSE, <<Q(5, 2)>>)}

\* align_corners is omitted or overrides the policy of the grid
Resize ==
    \E new_size \in ResizeArgs, align_corners \in {None, Some(~grid.align_corners)} :
        /\ Len(new_size.val) \in {1, ndim(grid)}
        /\ Call("resize", [size |-> new_size, align_corners |-> align_corners],
                resize(grid, new_size, align_corners))

Downsample ==
    \E levels \in 0..MaxLevels, dims \in DimsArgs, min_size \in {0, 1} :
        Call("downsample", [levels |-> levels, dims |-> dims, min_size |-> min_size],
             downsample(grid, levels, dims, min_size, None))

Upsample ==
    \E levels \in 0..MaxLevels, dims \in DimsArgs :
        Call("upsample", [levels |-> levels, dims |-> dims],
             upsample(grid, levels, dims, None))

Pyramid ==
    \E levels \in 0..MaxLevels, dims \in DimsArgs, min_size \in {0, 2} :
        Call("pyramid", [levels |-> levels, dims |-> dims, min_size |-> min_size],
             pyramid(grid, levels, dims, min_size))

\* (args, margin, num) of a crop or pad call
BorderArgs ==
    {<<<<pyint(n)>>, None, None>> : n \in 0..MaxMargin}
    \cup {<<<<>>, Some(pyint(n)), None>> : n \in {1}}
    \cup {<<<<>>, None, Some(pyint(n))>> : n \in {-1, 1}}
    \cup {<<<<>>, Some(pyseq(<<n>>)), None>> : n \in {MaxMargin}}
    \cup {<<<<>>, None, Some(pyseq(s))>> : s \in {<<0, 1>>, <<1, 0, 0>>}}
    \cup {<<<<>>, Some(pyint(1)), Some(pyint(1))>>}

Crop ==
    \E a \in BorderArgs :
        Call("crop", [args |-> a[1], margin |-> a[2], num |-> a[3]], crop(grid, a[1], a[2], a[3]))

Pad ==
    \E a \in BorderArgs :
        Call("pad", [args |-> a[1], margin |-> a[2], num |-> a[3]], pad(grid, a[1], a[2], a[3]))

Numpy == Call("numpy", <<>>, Val("array", numpy(grid)))

\* from_seq on the array of the current grid, whole or with the wrong length
FromSeq ==
    \E attrs \in {numpy(grid), Tail(numpy(grid)), numpy(grid) \o <<I(1)>>},
       org \in BOOLEAN, align_corners \in {str(~grid.align_corners)} :
        Call("from_seq", [attrs |-> attrs, origin |-> org, align_corners |-> align_corners],
             from_seq(attrs, org, align_corners))

Next == Resize \/ Downsample \/ Upsample \/ Pyramid \/ Crop \/ Pad \/ Numpy \/ FromSeq

Spec == Init /\ [][Next]_vars

---------------------------------------------------------------------------
(* The coordinate maps of a constructed grid: Grid.transform is called on
   grids of sizes 0..MaxSize, with a fractional size, with rotated and
   with sheared direction (|det| = 1 passes the constructor's check).      *)

CtorArgsT ==
    CtorArgs
    \cup [size : {<<I(2), I(MaxSize)>>, <<I(MaxSize), I(MaxSize)>>},
          direction : {Some([flat |-> FALSE, val |-> Shear])}, align_corners : {"True", "False"}]

\* Grid(size=(4, 4), spacing=(1, 1), center=(0, 0), align_corners=)
Example(ac) ==
    __init__(<<I(4), I(4)>>, Some(vec(2, I(1))), None, Some(vec(2, I(0))), None, ac)

InitT ==
    /\ \/ \E a \in CtorArgsT :
            /\ Construct(a).kind = "grid"
            /\ grid = Construct(a).grid
            /\ call = [name |-> "Grid", self |-> NoGrid, args |-> a, out |-> Construct(a)]
       \/ \E ac \in {"True", "False"} :
            /\ grid = Example(ac).grid
            /\ call = [name |-> "Grid", self |-> NoGrid,
                       args |-> [size |-> <<I(4), I(4)>>, direction |-> None,
                                 align_corners |-> ac],
                       out |-> Example(ac)]
    /\ ncalls = 0

\* a second grid of two dimensions
Other == Construct([size |-> <<I(2), I(MaxSize)>>, direction |-> None, align_corners |-> "True"]).grid

\* to_grid: omitted, the grid itself, an equal grid, another grid
ToGrids(g) == {None, Some(g), Some([g EXCEPT !.align_corners = ~@]), Some(Other)}

\* transform leaves the grid as it is, so a second call on the same grid
\* returns what the first one can: one call per constructed grid
Transform ==
    /\ call.name = "Grid"
    /\ \E axes \in {None} \cup {Some(a) : a \in Axes}, to_axes \in {None} \cup {Some(a) : a \in Axes},
          to_grid \in ToGrids(grid), vectors \in BOOLEAN :
           /\ call' = [name |-> "transform", self |-> grid,
                       args |-> [axes |-> axes, to_axes |-> to_axes, to_grid |-> to_grid,
                                 vectors |-> vectors],
                       out |-> transform(grid, axes, to_axes, to_grid, vectors)]
           /\ UNCHANGED <<grid, ncalls>>

\* 10^decimals for the numbers of decimals which fit 32 bits
Pow10(decimals) == IF decimals = 0 THEN 1 ELSE IF decimals = 6 THEN 1000000 ELSE 0

\* torch.round(x): to the nearest integer, halves to the even one
round(x) ==
    IF ~isfinite(x) THEN x
    ELSE LET lo   == floor(x)
             frac == sub(x, lo)
         IN  IF lt(frac, Q(1, 2)) THEN lo
             ELSE IF gt(frac, Q(1, 2)) THEN add(lo, I(1))
             ELSE IF lo[1] % 2 = 0 THEN lo ELSE add(lo, I(1))

RECURSIVE strip(_, _, _)
\* n without its factors p, at most k of them
strip(n, p, k) == IF k > 0 /\ n % p = 0 THEN strip(n \div p, p, k - 1) ELSE n

\* round_decimals(x, decimals) = round(x * 10^decimals) / 10^decimals.
\* For 12 decimals the product does not fit 32 bits: x is its own rounding
\* when its denominator divides 10^12; any other x is kept as it is, which
\* is within 5e-13 of the rounded value (below the resolution of float32)
round_decimals(x, decimals) ==
    IF decimals = 12
    THEN IF strip(strip(x[2], 2, 12), 5, 12) = 1 THEN x ELSE x
    ELSE div(round(mul(x, I(Pow10(decimals)))), I(Pow10(decimals)))

\* Grid.apply_transform(input, axes, to_axes, to_grid, vectors, decimals):
\* input is one point or vector, decimals is None or Some(number)
apply_transform(g, input, axes, to_axes, to_grid, vectors, decimals) ==
    LET b      == IF to_axes = None THEN axes ELSE to_axes[1]
        matrix == transform(g, Some(axes), Some(b), to_grid, vectors)
        moved_ == (to_grid # None /\ ~__eq__(to_grid[1], g)) \/ axes # b
        result == IF moved_ THEN homogeneous_transform(matrix.val, input) ELSE input
        digits == IF decimals = Some(-1)
                  THEN IF b \in {CUBE, CUBE_CORNERS} THEN Some(12)
                       ELSE IF b = GRID THEN Some(6) ELSE decimals
                  ELSE decimals
    IN  IF moved_ /\ matrix.kind = "error" THEN matrix
        ELSE IF digits # None /\ digits[1] >= 0
        THEN Val("tensor", [i \in Axis(result) |-> round_decimals(result[i], digits[1])])
        ELSE Val("tensor", result)

\* from_align_corners with the two spaces exchanged
from_align_corners_mut(ac) == IF ac THEN CUBE ELSE CUBE_CORNERS

\* Axes.from_align_corners
from_align_corners(ac) == IF ac THEN CUBE_CORNERS ELSE CUBE

\* Grid.index_to_cube(indices, decimals, align_corners)
index_to_cube(g, indices, decimals, ac) ==
    apply_transform(g, indices, GRID,
                    Some(from_align_corners(IF ac = None THEN g.align_corners ELSE ac[1])),
                    None, FALSE, decimals)

\* coordinates given to index_to_cube and apply_transform: the first and the
\* last grid index, and a point with more than 6 decimals
Indices(g) == {vec(ndim(g), I(0)), vsub(size_tensor(g), vec(ndim(g), I(1)))}

Points(g) == {vsub(size_tensor(g), vec(ndim(g), I(1))), vec(ndim(g), Q(1, 3))}

ApplyTransform ==
    /\ call.name = "Grid"
    /\ \E input \in Points(grid), axes \in Axes, to_axes \in {None} \cup {Some(a) : a \in Axes},
          to_grid \in ToGrids(grid), vectors \in BOOLEAN, decimals \in {None, Some(-1)} :
           /\ call' = [name |-> "apply_transform", self |-> grid,
                       args |-> [input |-> input, axes |-> axes, to_axes |-> to_axes,
                                 to_grid |-> to_grid, vectors |-> vectors,
                                 decimals |-> decimals],
                       out |-> apply_transform(grid, input, axes, to_axes, to_grid, vectors,
                                               decimals)]
           /\ UNCHANGED <<grid, ncalls>>

IndexToCube ==
    /\ call.name = "Grid"
    /\ \E indices \in Indices(grid), ac \in {None, Some(TRUE), Some(FALSE)} :
           /\ call' = [name |-> "index_to_cube", self |-> grid,
                       args |-> [indices |-> indices, align_corners |-> ac],
                       out |-> index_to_cube(grid, indices, Some(-1), ac)]
           /\ UNCHANGED <<grid, ncalls>>

NextT == Transform \/ ApplyTransform \/ IndexToCube

SpecT == InitT /\ [][NextT]_vars

---------------------------------------------------------------------------
(* Properties                                                              *)

\* the last call was g.resize(size) with an int size > 0 on every axis that
\* ran under the alignment policy ac
ResizedUnder(ac) ==
    /\ call.name = "resize"
    /\ call.args.size.int
    /\ \A i \in 1..Len(call.args.size.val) : gt(call.args.size.val[i], I(0))
    /\ (IF call.args.align_corners = None THEN call.self.align_corners
        ELSE call.args.align_corners[1]) = ac

\* C1: after g.downsample(1), upsample(1) of the result succeeds and equals g
\* (stored size, spacing, center and direction), for every grid g
C1_DownUpRoundTrip ==
    (call.name = "downsample" /\ call.args.levels = 1 /\ call.args.dims = {}
        /\ call.args.min_size = 1)
    => /\ call.out.kind = "grid"
       /\ upsample(call.out.grid, 1, {}, None).kind = "grid"
       /\ __eq__(upsample(call.out.grid, 1, {}, None).grid, call.self)

\* C2: with align_corners=True, resize to an int size > 0 returns a grid with
\* the origin of the source grid; the origin assertion does not fail
C2_ResizeKeepsOrigin ==
    ResizedUnder(TRUE)
    => /\ call.out.kind = "grid"
       /\ allclose(origin(call.out.grid), origin(call.self))

\* C3: with align_corners=False, resize to an int size > 0 returns a grid with
\* the extent and the center of the source grid; the extent assertion does
\* not fail
C3_ResizeKeepsExtent ==
    ResizedUnder(FALSE)
    => /\ call.out.kind = "grid"
       /\ allclose(extent(call.out.grid), extent(call.self))
       /\ allclose(call.out.grid.center, call.self.center)

\* the last call was g.transform(A, B, vectors=v) on the grid alone
TransformedSelf ==
    /\ call.name = "transform"
    /\ call.args.axes # None
    /\ call.args.to_grid = None

from_axes == call.args.axes[1]

onto_axes == IF call.args.to_axes = None THEN call.args.axes[1] ELSE call.args.to_axes[1]

\* the map of g.transform(a, b, vectors=v)
map(g, a, b, v) == transform(g, Some(a), Some(b), None, v).val

\* two transforms are the same map: equal linear parts and, for points,
\* equal translations
same_map(m, n, v) == mallclose(m.lin, n.lin) /\ (v \/ allclose(m.off, n.off))

\* C4: transform(A,B) followed by transform(B,C) is the map transform(A,C),
\* for every C, for points and for vectors
C4_Composition ==
    TransformedSelf
    => \A c \in Axes :
         same_map(compose(map(call.self, onto_axes, c, call.args.vectors), call.out.val,
                          call.args.vectors),
                  map(call.self, from_axes, c, call.args.vectors), call.args.vectors)

\* C5: on a grid with all sizes > 1, transform(B,A) after transform(A,B) maps
\* every point and every vector to itself, for distinct A and B
C5_Inverse ==
    (TransformedSelf /\ from_axes # onto_axes
        /\ \A i \in Axis(call.self.size) : gt(size_tensor(call.self)[i], I(1)))
    => same_map(compose(map(call.self, onto_axes, from_axes, call.args.vectors), call.out.val,
                        call.args.vectors),
                transform_identity(call.self, call.args.vectors), call.args.vectors)

\* C6: transform(A, A) with to_grid omitted or equal to self is the identity:
\* homogeneous with zero translation for points, plain D x D for vectors
C6_Identity ==
    (call.name = "transform" /\ call.args.axes # None /\ from_axes = onto_axes
        /\ (call.args.to_grid = None \/ __eq__(call.args.to_grid[1], call.self)))
    => /\ call.out.kind = "tensor"
       /\ call.out.val.lin = eye(ndim(call.self))
       /\ call.out.val.hom = ~call.args.vectors
       /\ call.out.val.off = vec(ndim(call.self), I(0))

\* a point transform WORLD -> WORLD with to_grid given has returned
C6_Witness ==
    /\ call.name = "transform"
    /\ call.args.axes = Some(WORLD)
    /\ call.args.to_axes \in {None, Some(WORLD)}
    /\ call.args.to_grid # None
    /\ __eq__(call.args.to_grid[1], call.self)
    /\ ~call.args.vectors
    /\ call.out.kind = "tensor"
    /\ call.out.val.hom

\* g.pad(n).crop(n) and g.crop(n).pad(n), None when a call raises
pad_crop(g, n) ==
    LET p == pad(g, <<pyint(n)>>, None, None)
    IN  IF p.kind # "grid" THEN None
        ELSE LET c == crop(p.grid, <<pyint(n)>>, None, None)
             IN  IF c.kind # "grid" THEN None ELSE Some(c.grid)

crop_pad(g, n) ==
    LET c == crop(g, <<pyint(n)>>, None, None)
    IN  IF c.kind # "grid" THEN None
        ELSE LET p == pad(c.grid, <<pyint(n)>>, None, None)
             IN  IF p.kind # "grid" THEN None ELSE Some(p.grid)

\* crop(n) hits the minimum size 1 on some axis of g
clamped(g, n) ==
    \E i \in Axis(g.size) :
        gt(g.size[i], I(0)) /\ lt(sub(g.size[i], I(2 * n)), I(1))

\* C7: for every grid g and margin n >= 0, g.pad(n).crop(n) equals g, and
\* g.crop(n).pad(n) equals g when the crop does not hit the size-1 clamp
C7_PadCropRoundTrip ==
    \A n \in 0..MaxMargin :
        /\ pad_crop(grid, n) # None
        /\ __eq__(pad_crop(grid, n)[1], grid)
        /\ ~clamped(grid, n)
           => (crop_pad(grid, n) # None /\ __eq__(crop_pad(grid, n)[1], grid))

\* the last call was g.pyramid(levels) with dims and min_size left at their
\* defaults
PyramidCalled ==
    /\ call.name = "pyramid"
    /\ call.args.dims = {}
    /\ call.args.min_size = 0

\* C8: pyramid(levels) returns grids for exactly the levels 0..levels, and
\* the grid of level 0 equals the original grid
C8_PyramidLevels ==
    PyramidCalled
    => /\ call.out.kind = "dict"
       /\ DOMAIN call.out.val = 0..call.args.levels
       /\ __eq__(call.out.val[0].grid, call.self)

\* C9: every grid returned by pyramid(levels) has the cube_extent() of the
\* original grid
C9_PyramidCubeExtent ==
    PyramidCalled
    => /\ call.out.kind = "dict"
       /\ \A level \in DOMAIN call.out.val :
            allclose(cube_extent(call.out.val[level].grid), cube_extent(call.self))

\* a grid the constructor accepts: 2 or 3 dimensions for from_seq, and
\* positive spacing
valid(g) == ndim(g) \in {2, 3} /\ spacing_ok(g.spacing)

\* the array is size, spacing, center and the rows of direction, in this order
numpy_layout(a, g) ==
    LET D == ndim(g)
    IN  /\ Len(a) = (D + 3) * D
        /\ \A i \in 1..D :
             /\ a[i] = g.size[i]
             /\ a[D + i] = g.spacing[i]
             /\ a[2 * D + i] = g.center[i]
             /\ \A j \in 1..D : a[3 * D + (i - 1) * D + j] = g.direction[i][j]

\* C10: from_seq(g.numpy(), origin=False) equals g for a valid grid of 2 or 3
\* dimensions, also with fractional stored size; numpy() has length (D+3)*D
\* in the order size, spacing, center, row-major direction; from_seq raises
\* ValueError for a length other than 10 or 18
C10_Serialization ==
    /\ valid(grid)
       => /\ from_seq(numpy(grid), FALSE, str(grid.align_corners)).kind = "grid"
          /\ __eq__(from_seq(numpy(grid), FALSE, str(grid.align_corners)).grid, grid)
    /\ (call.name = "from_seq" /\ call.args.attrs = numpy(call.self) /\ ~call.args.origin
           /\ valid(call.self))
       => (call.out.kind = "grid" /\ __eq__(call.out.grid, call.self))
    /\ call.name = "numpy" => numpy_layout(call.out.val, call.self)
    /\ (call.name = "from_seq" /\ Len(call.args.attrs) \notin {10, 18})
       => (call.out.kind = "error" /\ call.out.err = "ValueError")

\* from_seq has rebuilt a grid of fractional stored size from its array
C10_Witness ==
    /\ call.name = "from_seq"
    /\ call.args.attrs = numpy(call.self)
    /\ ~call.args.origin
    /\ \E i \in Axis(call.self.size) : call.self.size[i][2] # 1
    /\ call.out.kind = "grid"
    /\ call.out.grid.size = call.self.size

\* the operations which derive a grid from a grid
Derivations == {"resize", "downsample", "upsample", "crop", "pad"}

\* C11: every grid reached from a constructed grid by a successful deriving
\* operation has strictly positive, finite spacing and non-negative stored
\* size on every axis
C11_SpacingPositive ==
    (call.name \in Derivations /\ call.out.kind = "grid")
    => /\ \A i \in Axis(grid.spacing) : isfinite(grid.spacing[i]) /\ gt(grid.spacing[i], I(0))
       /\ \A i \in Axis(grid.size) : isfinite(grid.size[i]) /\ ge(grid.size[i], I(0))

\* Grid.center_(arg): binds a new center to the object and returns it
center_(g, arg) == [g EXCEPT !.center = arg]

\* the grid the caller holds as the source of a deriving call, after
\* center_(arg) on the grid the call returned: the same object when the call
\* returned self, untouched when it returned a copy or a new Grid
source_after_center_(src, out, arg) == IF out.same THEN center_(src, arg) ELSE src

\* a center which differs from the center of g
moved(g) == vadd(g.center, vec(ndim(g), I(1)))

\* C12: a grid derived by resize, downsample, upsample, crop, pad or as a
\* pyramid level is independent of its source: an in-place setter on the
\* derived grid leaves the source as it was, also when the requested size
\* or margin equals the current one
C12_DerivedIndependent ==
    /\ (call.name \in Derivations /\ call.out.kind = "grid")
       => source_after_center_(call.self, call.out, moved(call.out.grid)) = call.self
    /\ (call.name = "pyramid" /\ call.out.kind = "dict")
       => \A level \in DOMAIN call.out.val :
            source_after_center_(call.self, call.out.val[level],
                                 moved(call.out.val[level].grid)) = call.self

---------------------------------------------------------------------------
(* Construction, in-place direction, align_corners and equality            *)

\* Grid.direction_(arg): only the shape and the determinant are tested
direction_(g, arg) ==
    IF ~direction_shape_ok(ndim(g), arg) THEN Raise("ValueError")
    ELSE IF ~direction_det_ok(direction_matrix(ndim(g), arg)) THEN Raise("ValueError")
    ELSE Ok([g EXCEPT !.direction = direction_matrix(ndim(g), arg)], TRUE)

\* Grid.align_corners(arg=None): the flag, or a shallow copy with the flag set
align_corners(g, arg) ==
    IF arg = None THEN Val("bool", g.align_corners)
    ELSE Ok([g EXCEPT !.align_corners = bool(arg[1])], FALSE)

\* direction arguments: a scaling of determinant 2, a volume-preserving
\* scaling, and a reflection, next to R90 and Shear
Double == diag(<<I(2), I(1)>>)

Squeeze == diag(<<I(2), Q(1, 2)>>)

Flip == <<<<I(0), I(1)>>, <<I(1), I(0)>>>>

Directions ==
    {[flat |-> FALSE, val |-> M] : M \in {R90, Flip, Shear, Double, Squeeze, Cyc}}
    \cup {[flat |-> TRUE, val |-> flatten(R90)], [flat |-> TRUE, val |-> flatten(Cyc)]}

SizesC == {<<I(0), I(MaxSize)>>, <<I(2), I(MaxSize)>>, <<Q(5, 2), I(1)>>}

SP2 == SubSeq(SP, 1, 2)

CT2 == SubSeq(CT, 1, 2)

\* the origin of the grid of this size and direction with center CT2
OriginAt(new_size, direction) ==
    origin([size |-> new_size, spacing |-> SP2, center |-> CT2,
            direction |-> IF direction # None /\ direction_shape_ok(2, direction[1])
                          THEN direction_matrix(2, direction[1]) ELSE eye(2),
            align_corners |-> TRUE])

\* origin arguments: omitted, the origin which fits center CT2, another
\* point; each as a torch.Tensor or as a tuple
Origins(new_size, direction) ==
    {None} \cup {Some(array(is_tensor, org)) :
                    is_tensor \in BOOLEAN,
                    org \in {OriginAt(new_size, direction),
                             vadd(OriginAt(new_size, direction), vec(2, I(1)))}}

CtorArgsC ==
    UNION {[size : {new_size}, direction : {direction}, center : {None, Some(CT2)},
            origin : Origins(new_size, direction), align_corners : {"True", "False"}] :
              new_size \in SizesC, direction \in {None} \cup {Some(d) : d \in Directions}}

ConstructC(a) == __init__(a.size, Some(SP2), a.direction, a.center, a.origin, a.align_corners)

\* the state after Grid(...) returned or raised
InitC ==
    /\ \E a \in CtorArgsC :
         /\ call = [name |-> "Grid", self |-> NoGrid, args |-> a, out |-> ConstructC(a)]
         /\ grid = ConstructC(a).grid
    /\ ncalls = 0

Constructed == call.name = "Grid" /\ call.out.kind = "grid"

\* grid.direction_(arg)
Direction_ ==
    \E arg \in Directions :
        /\ Constructed
        /\ call' = [name |-> "direction_", self |-> grid, args |-> [arg |-> arg],
                    out |-> direction_(grid, arg)]
        /\ grid' = IF call'.out.kind = "grid" THEN call'.out.grid ELSE grid
        /\ UNCHANGED ncalls

\* grid.align_corners(arg)
AlignCorners ==
    \E arg \in {None, Some("True"), Some("False")} :
        /\ Constructed
        /\ call' = [name |-> "align_corners", self |-> grid, args |-> [arg |-> arg],
                    out |-> align_corners(grid, arg)]
        /\ UNCHANGED <<grid, ncalls>>

\* grids to compare with g: g itself, g with the other align_corners, g with
\* one attribute changed by more than the tolerance, a grid of 3 dimensions
Apart(g) ==
    {g, [g EXCEPT !.align_corners = ~@],
     [g EXCEPT !.size[1] = add(@, I(1))],
     [g EXCEPT !.spacing[2] = mul(@, I(2))],
     [g EXCEPT !.center[1] = add(@, Q(1, 20000))],
     [g EXCEPT !.direction = mm(R90, @)],
     [g EXCEPT !.direction = mm(R90, @), !.align_corners = ~@],
     Construct([size |-> <<I(1), I(2), I(MaxSize)>>, direction |-> None,
                align_corners |-> "True"]).grid}

\* g with one attribute changed by less than the tolerance
Near(g) ==
    {[g EXCEPT !.size[2] = add(@, Q(1, 200000))],
     [g EXCEPT !.spacing[1] = add(@, Q(1, 200000)), !.align_corners = ~@],
     [g EXCEPT !.center[2] = add(@, Q(-1, 200000))]}

\* grid == other, and other == grid
Equals ==
    /\ Constructed
    /\ \E pair \in {<<grid, h>> : h \in Apart(grid)}
                    \cup {<<h, grid>> : h \in Apart(grid) \cup Near(grid)} :
        /\ call' = [name |-> "__eq__", self |-> pair[1], args |-> [other |-> pair[2]],
                    out |-> Val("bool", __eq__(pair[1], pair[2]))]
        /\ UNCHANGED <<grid, ncalls>>

NextC == Direction_ \/ AlignCorners \/ Equals

SpecC == InitC /\ [][NextC]_vars

\* M times its transpose is the identity
orthonormal(M) == mallclose(mm(M, t(M)), eye(Len(M)))

\* the last call gave a square direction matrix of the grid's dimension to
\* the constructor (and no origin) or to direction_
DirectionGiven ==
    \/ /\ call.name = "Grid"
       /\ call.args.direction # None
       /\ call.args.origin = None
       /\ direction_shape_ok(Len(call.args.size), call.args.direction[1])
    \/ /\ call.name = "direction_"
       /\ direction_shape_ok(ndim(call.self), call.args.arg)

DirectionArg ==
    IF call.name = "Grid" THEN direction_matrix(Len(call.args.size), call.args.direction[1])
    ELSE direction_matrix(ndim(call.self), call.args.arg)

\* C13: Grid(direction=M) and direction_(M) raise ValueError for every square
\* matrix M which is not orthonormal, and accept every orthonormal one
C13_DirectionOrthonormal ==
    DirectionGiven
    => IF orthonormal(DirectionArg)
       THEN call.out.kind = "grid" /\ call.out.grid.direction = DirectionArg
       ELSE call.out.kind = "error" /\ call.out.err = "ValueError"

\* size, spacing, center and direction of g and h agree within the tolerance
\* of torch.allclose (rtol 1e-5 of h's value, atol 1e-8)
agree(g, h) ==
    /\ ndim(g) = ndim(h)
    /\ \A i \in 1..ndim(g) :
         /\ isclose(g.size[i], h.size[i])
         /\ isclose(g.spacing[i], h.spacing[i])
         /\ isclose(g.center[i], h.center[i])
         /\ \A j \in 1..ndim(g) : isclose(g.direction[i][j], h.direction[i][j])

\* C14: two grids are equal exactly when size, spacing, center and direction
\* agree within tolerance, whatever their align_corners flags; in particular
\* g == g.align_corners(not g.align_corners())
C14_Equality ==
    /\ call.name = "__eq__"
       => call.out.val = agree(call.self, call.args.other)
    /\ (call.name = "align_corners" /\ call.args.arg # None)
       => /\ call.out.kind = "grid"
          /\ call.out.grid.align_corners = bool(call.args.arg[1])
          /\ __eq__(call.self, call.out.grid)
          /\ __eq__(call.out.grid, call.self)

\* grids which differ in align_corners and, below the tolerance, in spacing
\* have compared equal
C14_Witness ==
    /\ call.name = "__eq__"
    /\ call.self.align_corners # call.args.other.align_corners
    /\ call.self.spacing # call.args.other.spacing
    /\ call.out.val = TRUE

\* Grid(...) was called with size, spacing and direction the constructor
\* accepts
CtorValid ==
    /\ call.name = "Grid"
    /\ \/ call.args.direction = None
       \/ /\ direction_shape_ok(Len(call.args.size), call.args.direction[1])
          /\ direction_det_ok(direction_matrix(Len(call.args.size), call.args.direction[1]))

\* origin + direction * diag(spacing) * (size - 1) / 2 for the grid g, with
\* offset zero for an axis of size 0
center_from(g, org) ==
    [i \in 1..ndim(g) |->
        add(org[i],
            dot(g.direction[i],
                [j \in 1..ndim(g) |->
                    mul(g.spacing[j],
                        IF size_tensor(g)[j] = I(0) THEN I(0)
                        ELSE div(sub(size_tensor(g)[j], I(1)), I(2)))],
                ndim(g)))]

\* C15: Grid(origin=o) without center gives a grid with origin() == o and
\* center o + direction * diag(spacing) * (size - 1) / 2; with center and
\* origin both given the construction succeeds when they are consistent and
\* raises ValueError when they are not
C15_OriginCenter ==
    /\ (CtorValid /\ call.args.origin # None /\ call.args.center = None)
       => /\ call.out.kind = "grid"
          /\ origin(call.out.grid) = call.args.origin[1].val
          /\ call.out.grid.center = center_from(call.out.grid, call.args.origin[1].val)
    /\ (CtorValid /\ call.args.origin # None /\ call.args.center # None)
       => IF allclose(call.args.origin[1].val,
                      OriginAt(call.args.size, call.args.direction))
          THEN call.out.kind = "grid" /\ call.out.grid.center = call.args.center[1]
          ELSE call.out.kind = "error" /\ call.out.err = "ValueError"

\* the last call was g.downsample(1) with the other arguments left at their
\* defaults, on a grid with align_corners=True and an even size of at
\* least 2 on every axis
DownsampledEven ==
    /\ call.name = "downsample"
    /\ call.args.levels = 1
    /\ call.args.dims = {}
    /\ call.args.min_size = 1
    /\ call.self.align_corners
    /\ \A i \in Axis(call.self.size) :
         /\ call.self.size[i][2] = 1
         /\ call.self.size[i][1] >= 2
         /\ call.self.size[i][1] % 2 = 0

\* C16: downsample(1) of a grid with align_corners=True and even size n on
\* every axis has size n/2, exactly twice the spacing and the same origin
C16_DownsampleEven ==
    DownsampledEven
    => /\ call.out.kind = "grid"
       /\ call.out.grid.size = vdiv(call.self.size, vec(ndim(call.self), I(2)))
       /\ call.out.grid.spacing = vscale(I(2), call.self.spacing)
       /\ allclose(origin(call.out.grid), origin(call.self))

\* C16 as the code has it: downsample(1) of a grid with align_corners=True
\* and even size n >= 4 on every axis has size n/2, the same origin, and
\* spacing (n - 1) / (n/2 - 1) times the original, which keeps the corner
\* points; with an axis of size 2 the call raises AssertionError
C16_DownsampleEvenCorners ==
    DownsampledEven
    => IF \E i \in Axis(call.self.size) : call.self.size[i] = I(2)
       THEN call.out.kind = "error" /\ call.out.err = "AssertionError"
       ELSE /\ call.out.kind = "grid"
            /\ call.out.grid.size = vdiv(call.self.size, vec(ndim(call.self), I(2)))
            /\ \A i \in Axis(call.self.size) :
                 call.out.grid.spacing[i]
                   = mul(call.self.spacing[i],
                         div(sub(call.self.size[i], I(1)),
                             sub(div(call.self.size[i], I(2)), I(1))))
            /\ allclose(origin(call.out.grid), origin(call.self))

\* downsample(1) has halved a grid with an axis of size 2 * MaxSize + 2
C16_Witness ==
    /\ DownsampledEven
    /\ call.self.size[2] = I(2 * MaxSize + 2)
    /\ call.out.kind = "grid"
    /\ call.out.grid.size[2] = I(MaxSize + 1)

\* the cube the last index_to_cube call mapped to: CUBE_CORNERS or CUBE
corners == IF call.args.align_corners = None THEN call.self.align_corners
           ELSE call.args.align_corners[1]

\* C17: on an axis of size n > 1 index_to_cube maps index 0 to -1 and n - 1
\* to +1 under align_corners=True, and 0 to -1 + 1/n and n - 1 to 1 - 1/n
\* under align_corners=False; the grid of size (4, 4), spacing 1, center 0
\* has origin (-1.5, -1.5), cube_extent (3, 3) under align_corners=True and
\* the endpoints -0.75 and 0.75 under align_corners=False
C17_IndexToCube ==
    /\ call.name = "index_to_cube"
       => /\ call.out.kind = "tensor"
          /\ \A i \in 1..ndim(call.self) :
               LET n == size_tensor(call.self)[i]
               IN  gt(n, I(1))
                   => /\ call.args.indices[i] = I(0)
                         => call.out.val[i] = IF corners THEN I(-1)
                                              ELSE add(I(-1), div(I(1), n))
                      /\ call.args.indices[i] = sub(n, I(1))
                         => call.out.val[i] = IF corners THEN I(1)
                                              ELSE sub(I(1), div(I(1), n))
    /\ (call.name = "Grid" /\ call.out = Example(call.args.align_corners))
       => /\ origin(grid) = vec(2, Q(-3, 2))
          /\ grid.align_corners => cube_extent(grid) = vec(2, I(3))
          /\ index_to_cube(grid, vec(2, I(0)), Some(-1), Some(FALSE)).val = vec(2, Q(-3, 4))
          /\ index_to_cube(grid, vec(2, I(3)), Some(-1), Some(FALSE)).val = vec(2, Q(3, 4))
          /\ index_to_cube(grid, vec(2, I(0)), Some(-1), Some(TRUE)).val = vec(2, I(-1))
          /\ index_to_cube(grid, vec(2, I(3)), Some(-1), Some(TRUE)).val = vec(2, I(1))

\* index_to_cube has mapped the last index of the grid of size (4, 4) with
\* align_corners=False to (0.75, 0.75)
C17_Witness ==
    /\ call.name = "index_to_cube"
    /\ call.self = Example("False").grid
    /\ call.args.align_corners = None
    /\ call.args.indices = vec(2, I(3))
    /\ call.out.val = vec(2, Q(3, 4))

\* C18: apply_transform(input, axes=A, to_axes=A) with to_grid omitted or
\* equal to the grid and the default decimals returns the input unchanged,
\* for every space A and every input
C18_ApplyIdentity ==
    (/\ call.name = "apply_transform"
     /\ call.args.to_axes \in {None, Some(call.args.axes)}
     /\ (call.args.to_grid = None \/ __eq__(call.args.to_grid[1], call.self))
     /\ call.args.decimals = Some(-1))
    => call.out.kind = "tensor" /\ call.out.val = call.args.input

\* C19: transform(vectors=False) returns a D x (D+1) homogeneous matrix and
\* transform(vectors=True) a D x D matrix, for every pair of axes, CUBE to
\* CUBE_CORNERS and back included
C19_TransformShape ==
    (call.name = "transform" /\ call.out.kind = "tensor")
    => /\ call.out.val.hom = ~call.args.vectors
       /\ Len(call.out.val.lin) = ndim(call.self)
       /\ \A i \in Axis(call.out.val.lin) : Len(call.out.val.lin[i]) = ndim(call.self)

\* the last call was g.transform(axes, to_axes, to_grid) with a to_grid
CrossGrid ==
    /\ call.name = "transform"
    /\ call.args.axes # None
    /\ call.args.to_grid # None

\* C20: with a to_grid of the same dimension which is not equal to the grid,
\* transform(axes, to_axes, to_grid) is self.transform(axes, WORLD) followed
\* by to_grid.transform(WORLD, to_axes); a to_grid of another dimension
\* raises ValueError; a to_grid equal to the grid, whatever its
\* align_corners, gives the transform of the grid itself
C20_CrossGrid ==
    CrossGrid
    => LET h == call.args.to_grid[1]
           v == call.args.vectors
       IN  IF __eq__(h, call.self)
           THEN call.out = transform(call.self, call.args.axes, call.args.to_axes, None, v)
           ELSE IF ndim(h) # ndim(call.self)
           THEN call.out.kind = "error" /\ call.out.err = "ValueError"
           ELSE /\ call.out.kind = "tensor"
                /\ call.out.val = compose(map(h, WORLD, onto_axes, v),
                                          map(call.self, from_axes, WORLD, v), v)

\* a transform from the cube of a grid with more than one point on every
\* axis to the indices of another grid of the same dimension has been returned
C20_Witness ==
    /\ CrossGrid
    /\ ~__eq__(call.args.to_grid[1], call.self)
    /\ ndim(call.args.to_grid[1]) = ndim(call.self)
    /\ from_axes = CUBE
    /\ onto_axes = GRID
    /\ ~call.args.vectors
    /\ \A i \in Axis(call.self.size) : gt(call.self.size[i], I(1))
    /\ call.out.kind = "tensor"

---------------------------------------------------------------------------
(* Pooling, centered cropping and padding, narrowing, regions of interest  *)

\* Grid.pool(kernel_size, stride, padding, dilation, ceil_mode): stride is
\* None or Some(number). The origin is index_to_world of a list of 3
\* coordinates whatever the dimension of the grid; for a grid of another
\* dimension the matrix and the points do not fit and the tensor backend
\* raises mismatch (its exception class is not part of this source file)
pool(g, kernel_size, stride, padding, dilation, ceil_mode, mismatch) ==
    LET n       == size_tensor(g)
        sz      == [i \in Axis(n) |-> IF ceil_mode THEN ceil(div(n[i], I(kernel_size)))
                                      ELSE floor(div(n[i], I(kernel_size)))]
        indices == vec(3, Q(kernel_size - 1, 2))
    IN  IF stride # None THEN Raise("NotImplementedError")
        ELSE IF padding # 0 THEN Raise("NotImplementedError")
        ELSE IF dilation # 1 THEN Raise("NotImplementedError")
        ELSE IF Len(indices) # ndim(g) THEN Raise(mismatch)
        ELSE __init__(sz, Some(vscale(I(kernel_size), g.spacing)),
                      Some([flat |-> FALSE, val |-> g.direction]), None,
                      Some(array(TRUE, index_to_world(g, indices))), "bound method")

\* exceptions of the tensor backend for tensors whose shapes do not fit
ShapeErrors == {"ValueError", "RuntimeError"}

Pool ==
    /\ call.name = "Grid"
    /\ ndim(grid) \in {2, 3}
    /\ \E kernel_size \in 1..MaxSize, stride \in {None, Some(2)}, padding \in {0, 1},
          dilation \in {1, 2}, ceil_mode \in BOOLEAN, mismatch \in ShapeErrors :
           /\ call' = [name |-> "pool", self |-> grid,
                       args |-> [kernel_size |-> kernel_size, stride |-> stride,
                                 padding |-> padding, dilation |-> dilation,
                                 ceil_mode |-> ceil_mode],
                       out |-> pool(grid, kernel_size, stride, padding, dilation, ceil_mode,
                                    mismatch)]
           /\ UNCHANGED <<grid, ncalls>>

\* C22: pool(k) with default stride, padding and dilation returns a grid of
\* the same dimension (2 or 3) with size floor(n/k), or ceil(n/k) with
\* ceil_mode, spacing k times the old one and origin at the world position
\* of index (k-1)/2 on every axis; a stride, a padding other than 0 or a
\* dilation other than 1 raise NotImplementedError
C22_Pool ==
    call.name = "pool"
    => IF call.args.stride # None \/ call.args.padding # 0 \/ call.args.dilation # 1
       THEN call.out.kind = "error" /\ call.out.err = "NotImplementedError"
       ELSE LET k == I(call.args.kernel_size)
                n == size_tensor(call.self)
            IN  /\ call.out.kind = "grid"
                /\ ndim(call.out.grid) = ndim(call.self)
                /\ \A i \in Axis(n) :
                     /\ size_tensor(call.out.grid)[i]
                          = IF call.args.ceil_mode THEN ceil(div(n[i], k))
                            ELSE floor(div(n[i], k))
                     /\ call.out.grid.spacing[i] = mul(k, call.self.spacing[i])
                /\ allclose(origin(call.out.grid),
                            index_to_world(call.self,
                                           vec(ndim(call.self), div(sub(k, I(1)), I(2)))))

\* Grid.center_crop(size): size is a tensor(int, val)
center_crop(g, new_size) ==
    LET sz  == cat_scalars(new_size, ndim(g))
        m   == size(g)
        n   == [i \in Axis(m) |-> IF m[i] <= sz.val[i][1] THEN m[i] ELSE sz.val[i][1]]
        org == [i \in Axis(m) |-> I((m[i] - n[i]) \div 2)]
    IN  IF ~sz.int THEN Raise("TypeError")
        ELSE __init__(ints(n), Some(g.spacing), Some([flat |-> FALSE, val |-> g.direction]),
                      None, Some(array(TRUE, index_to_world(g, org))), "bound method")

\* Grid.center_pad(size)
center_pad(g, new_size) ==
    LET sz  == cat_scalars(new_size, ndim(g))
        m   == size(g)
        n   == [i \in Axis(m) |-> IF m[i] >= sz.val[i][1] THEN m[i] ELSE sz.val[i][1]]
        org == [i \in Axis(m) |-> I(-((n[i] - m[i]) \div 2))]
    IN  IF ~sz.int THEN Raise("TypeError")
        ELSE __init__(ints(n), Some(g.spacing), Some([flat |-> FALSE, val |-> g.direction]),
                      None, Some(array(TRUE, index_to_world(g, org))), "bound method")

\* Grid.narrow(dim, start, length): dim counts the axes from 0, axis i of the
\* model is dimension i - 1
narrow(g, dim, start, length) ==
    LET m   == size(g)
        n   == [i \in Axis(m) |-> IF i - 1 = dim THEN length ELSE m[i]]
        org == [i \in Axis(m) |-> IF i - 1 = dim THEN I(start) ELSE I(0)]
    IN  IF dim < 0 \/ dim > ndim(g) THEN Raise("IndexError")
        ELSE __init__(ints(n), Some(g.spacing), Some([flat |-> FALSE, val |-> g.direction]),
                      None, Some(array(TRUE, index_to_world(g, org))), "bound method")

\* roi_num with the high count taken from the start of the grid
roi_num_mut(g, st, sz) ==
    [k \in 1..(2 * ndim(g)) |->
        IF k % 2 = 1 THEN st[(k + 1) \div 2][1]
        ELSE size(g)[k \div 2] - sz[k \div 2][1]]

\* the list num which Grid.region_of_interest hands to crop
roi_num(g, st, sz) ==
    [k \in 1..(2 * ndim(g)) |->
        IF k % 2 = 1 THEN st[(k + 1) \div 2][1]
        ELSE size(g)[k \div 2] - (st[k \div 2][1] + sz[k \div 2][1])]

\* Grid.region_of_interest(start, size): tensors of one number or one per axis
region_of_interest(g, start, new_size) ==
    LET st == cat_scalars(start, ndim(g))
        sz == cat_scalars(new_size, ndim(g))
    IN  IF ~st.int THEN Raise("TypeError")
        ELSE IF ~sz.int THEN Raise("TypeError")
        ELSE crop(g, <<>>, None, Some(pyseq(roi_num(g, st.val, sz.val))))

\* one number for all axes, one number per axis, or a number which is no integer
Starts(g) ==
    {tensor(TRUE, <<I(n)>>) : n \in -1..1}
    \cup {tensor(TRUE, [i \in Axis(g.size) |-> I(i - 1)]), tensor(FALSE, <<Q(1, 2)>>)}

Lengths(g) ==
    {tensor(TRUE, <<I(n)>>) : n \in 1..(MaxSize + 1)}
    \cup {tensor(TRUE, [i \in Axis(g.size) |-> I(i)]), tensor(FALSE, <<Q(5, 2)>>)}

RegionOfInterest ==
    /\ call.name = "Grid"
    /\ \E start \in Starts(grid), new_size \in Lengths(grid) :
           /\ call' = [name |-> "region_of_interest", self |-> grid,
                       args |-> [start |-> start, size |-> new_size],
                       out |-> region_of_interest(grid, start, new_size)]
           /\ UNCHANGED <<grid, ncalls>>

CenterCrop ==
    /\ call.name = "Grid"
    /\ \E new_size \in Lengths(grid) \cup {tensor(TRUE, <<I(-1)>>)} :
           /\ call' = [name |-> "center_crop", self |-> grid, args |-> [size |-> new_size],
                       out |-> center_crop(grid, new_size)]
           /\ UNCHANGED <<grid, ncalls>>

CenterPad ==
    /\ call.name = "Grid"
    /\ \E new_size \in Lengths(grid) \cup {tensor(TRUE, <<I(-1)>>)} :
           /\ call' = [name |-> "center_pad", self |-> grid, args |-> [size |-> new_size],
                       out |-> center_pad(grid, new_size)]
           /\ UNCHANGED <<grid, ncalls>>

Narrow ==
    /\ call.name = "Grid"
    /\ \E dim \in -1..(ndim(grid) + 1), start \in -1..1, length \in 1..MaxSize :
           /\ call' = [name |-> "narrow", self |-> grid,
                       args |-> [dim |-> dim, start |-> start, length |-> length],
                       out |-> narrow(grid, dim, start, length)]
           /\ UNCHANGED <<grid, ncalls>>

\* transform_vectors which takes the scales from CUBE_CORNERS as size / 2
transform_vectors_mut(g, vectors, axes, to_axes, to_grid) ==
    LET a  == axes
        b  == IF to_axes = None THEN axes ELSE to_axes[1]
        D  == ndim(g)
        affine1 == IF a = WORLD THEN Some(inverse_affine(g)) ELSE None
        scales1 == IF a = CUBE THEN Some(vdiv(size_tensor(g), vec(D, I(2))))
                   ELSE IF a = CUBE_CORNERS
                   THEN Some(vdiv(vsub(size_tensor(g), vec(D, I(0))), vec(D, I(2))))
                   ELSE None
        num == IF b = CUBE_CORNERS THEN vsub(size_tensor(g), vec(D, I(1))) ELSE size_tensor(g)
        grid_to_cube == vdiv(vec(D, I(2)), num)
        affine2 == IF b = WORLD
                   THEN IF scales1 = None THEN Some(affine(g))
                        ELSE Some(mm(affine(g), diag(scales1[1])))
                   ELSE IF b \in {CUBE, CUBE_CORNERS} /\ affine1 # None
                   THEN Some(mm(diag(grid_to_cube), affine1[1]))
                   ELSE affine1
        scales2 == IF b \in {CUBE, CUBE_CORNERS} /\ affine1 = None
                   THEN IF scales1 = None THEN Some(grid_to_cube)
                        ELSE Some(vmul(scales1[1], grid_to_cube))
                   ELSE scales1
    IN  IF a = WORLD /\ b = WORLD THEN Val("tensor", vectors)
        ELSE IF to_grid = None \/ __eq__(to_grid[1], g)
        THEN IF a = b THEN Val("tensor", vectors)
             ELSE IF affine2 = None THEN Val("tensor", vmul(vectors, scales2[1]))
             ELSE Val("tensor", matmul(affine2[1], vectors))
        ELSE LET matrix == transform(g, Some(a), Some(b), to_grid, TRUE)
             IN  IF matrix.kind = "error" THEN matrix
                 ELSE Val("tensor", homogeneous_transform(matrix.val, vectors))

\* Grid.transform_vectors(vectors, axes, to_axes=None, to_grid=None): a
\* diagonal rescaling is kept as the vector scales, a reorientation as the
\* matrix affine
transform_vectors(g, vectors, axes, to_axes, to_grid) ==
    LET a  == axes
        b  == IF to_axes = None THEN axes ELSE to_axes[1]
        D  == ndim(g)
        affine1 == IF a = WORLD THEN Some(inverse_affine(g)) ELSE None
        scales1 == IF a = CUBE THEN Some(vdiv(size_tensor(g), vec(D, I(2))))
                   ELSE IF a = CUBE_CORNERS
                   THEN Some(vdiv(vsub(size_tensor(g), vec(D, I(1))), vec(D, I(2))))
                   ELSE None
        num == IF b = CUBE_CORNERS THEN vsub(size_tensor(g), vec(D, I(1))) ELSE size_tensor(g)
        grid_to_cube == vdiv(vec(D, I(2)), num)
        affine2 == IF b = WORLD
                   THEN IF scales1 = None THEN Some(affine(g))
                        ELSE Some(mm(affine(g), diag(scales1[1])))
                   ELSE IF b \in {CUBE, CUBE_CORNERS} /\ affine1 # None
                   THEN Some(mm(diag(grid_to_cube), affine1[1]))
                   ELSE affine1
        scales2 == IF b \in {CUBE, CUBE_CORNERS} /\ affine1 = None
                   THEN IF scales1 = None THEN Some(grid_to_cube)
                        ELSE Some(vmul(scales1[1], grid_to_cube))
                   ELSE scales1
    IN  IF a = WORLD /\ b = WORLD THEN Val("tensor", vectors)
        ELSE IF to_grid = None \/ __eq__(to_grid[1], g)
        THEN IF a = b THEN Val("tensor", vectors)
             ELSE IF affine2 = None THEN Val("tensor", vmul(vectors, scales2[1]))
             ELSE Val("tensor", matmul(affine2[1], vectors))
        ELSE LET matrix == transform(g, Some(a), Some(b), to_grid, TRUE)
             IN  IF matrix.kind = "error" THEN matrix
                 ELSE Val("tensor", homogeneous_transform(matrix.val, vectors))

\* vectors of the dimension of g, one of them with a zero component
Vectors(g) == {[i \in Axis(g.size) |-> I(i - 1)], [i \in Axis(g.size) |-> Q(-i, 2)]}

TransformVectors ==
    /\ call.name = "Grid"
    /\ \E vectors \in Vectors(grid), axes \in Axes,
          to_axes \in {None} \cup {Some(a) : a \in Axes}, to_grid \in ToGrids(grid) :
           /\ call' = [name |-> "transform_vectors", self |-> grid,
                       args |-> [vectors |-> vectors, axes |-> axes, to_axes |-> to_axes,
                                 to_grid |-> to_grid],
                       out |-> transform_vectors(grid, vectors, axes, to_axes, to_grid)]
           /\ UNCHANGED <<grid, ncalls>>

\* num of a crop or pad call with one (low, high) pair per axis of g
NumLists(g) ==
    IF ndim(g) <= 2 THEN [1..(2 * ndim(g)) -> -1..MaxMargin] ELSE [1..(2 * ndim(g)) -> 0..1]

CropNum ==
    /\ call.name = "Grid"
    /\ \E num \in NumLists(grid) :
           /\ call' = [name |-> "crop", self |-> grid,
                       args |-> [args |-> <<>>, margin |-> None, num |-> Some(pyseq(num))],
                       out |-> crop(grid, <<>>, None, Some(pyseq(num)))]
           /\ UNCHANGED <<grid, ncalls>>

PadNum ==
    /\ call.name = "Grid"
    /\ \E num \in NumLists(grid) :
           /\ call' = [name |-> "pad", self |-> grid,
                       args |-> [args |-> <<>>, margin |-> None, num |-> Some(pyseq(num))],
                       out |-> pad(grid, <<>>, None, Some(pyseq(num)))]
           /\ UNCHANGED <<grid, ncalls>>

\* the call is crop or pad (name) of a grid without empty axis, with a list
\* num of one (low, high) pair per axis, not all zero
BorderCall(name) ==
    /\ call.name = name
    /\ \A i \in Axis(call.self.size) : gt(call.self.size[i], I(0))
    /\ \E k \in 1..Len(call.args.num[1].val) : call.args.num[1].val[k] # 0

low(i) == call.args.num[1].val[2 * i - 1]

high(i) == call.args.num[1].val[2 * i]

max(a, b) == IF a >= b THEN a ELSE b

RoiCall ==
    /\ call.name = "region_of_interest"
    /\ call.args.start.int /\ call.args.size.int

roi_start == cat_scalars(call.args.start, ndim(call.self)).val

roi_size == cat_scalars(call.args.size, ndim(call.self)).val

\* C24: for integer start and size >= 1 per axis, region_of_interest(start,
\* size) is crop(num=[start_i, grid_size_i - (start_i + size_i)]); the result
\* has the requested size and its origin at the world position of index
\* start, also for regions which reach beyond the grid
C24_RegionOfInterest ==
    RoiCall
    => /\ call.out = crop(call.self, <<>>, None,
                          Some(pyseq(roi_num(call.self, roi_start, roi_size))))
       /\ call.out.kind = "grid"
       /\ \A i \in Axis(call.self.size) : size(call.out.grid)[i] = roi_size[i][1]
       /\ allclose(origin(call.out.grid), index_to_world(call.self, roi_start))

\* C24 with the axes of size 0 set apart: such an axis stays empty, every
\* other axis has the requested size
C24_RegionOfInterestNonEmpty ==
    RoiCall
    => /\ call.out = crop(call.self, <<>>, None,
                          Some(pyseq(roi_num(call.self, roi_start, roi_size))))
       /\ call.out.kind = "grid"
       /\ \A i \in Axis(call.self.size) :
            size(call.out.grid)[i] = IF size(call.self)[i] = 0 THEN 0 ELSE roi_size[i][1]
       /\ allclose(origin(call.out.grid), index_to_world(call.self, roi_start))

C24_Witness ==
    /\ RoiCall
    /\ call.out.kind = "grid" /\ ~call.out.same
    /\ ndim(call.self) = 2
    /\ \A i \in Axis(call.self.size) :
         /\ size(call.self)[i] > 0
         /\ roi_start[i][1] + roi_size[i][1] > size(call.self)[i]
         /\ size(call.out.grid)[i] = roi_size[i][1]

\* the stored size downsample asks for on axis i
divided(i) ==
    LET d == div(call.self.size[i], pow2(call.args.levels))
    IN  IF (i - 1) \in selected(call.self, call.args.dims) /\ ge(d, I(call.args.min_size))
        THEN d ELSE call.self.size[i]

\* C25: downsample(levels, dims, min_size) succeeds; it divides the stored
\* size by 2^levels on the axes in dims, except where the divided size is
\* below min_size, and every axis whose size is unchanged keeps its spacing
C25_DownsampleFrame ==
    call.name = "downsample"
    => /\ call.out.kind = "grid"
       /\ \A i \in Axis(call.self.size) :
            /\ call.out.grid.size[i] = divided(i)
            /\ divided(i) = call.self.size[i]
               => call.out.grid.spacing[i] = call.self.spacing[i]

\* a size argument which is no integer, or negative on some axis
BadSize(size_arg) == ~size_arg.int \/ \E i \in 1..Len(size_arg.val) : lt(size_arg.val[i], I(0))

\* a call with a malformed argument: a non-integer or negative size given to
\* resize, center_crop, center_pad or region_of_interest, a num of odd length
\* or not exactly one of args, margin and num given to crop or pad
Malformed ==
    \/ call.name = "resize" /\ BadSize(call.args.size)
    \/ call.name \in {"center_crop", "center_pad"} /\ BadSize(call.args.size)
    \/ call.name = "region_of_interest"
       /\ (BadSize(call.args.size) \/ ~call.args.start.int)
    \/ /\ call.name \in {"crop", "pad"}
       /\ \/ (IF call.args.args # <<>> THEN 1 ELSE 0)
             + (IF call.args.margin # None THEN 1 ELSE 0)
             + (IF call.args.num # None THEN 1 ELSE 0) # 1
          \/ /\ call.args.num # None
             /\ ~call.args.num[1].int
             /\ Len(call.args.num[1].val) % 2 = 1

\* C26: a malformed size, num or args/margin/num argument of resize,
\* center_crop, center_pad, region_of_interest, crop and pad is reported as
\* ValueError, never as another exception and never accepted
C26_ValueError ==
    Malformed => call.out.kind = "error" /\ call.out.err = "ValueError"

\* size of the grid at a level of the returned pyramid, along axis i
level_size(level, i) == size(call.out.val[level].grid)[i]

\* (s + 1) // 2, or s where that is below min_size
halved(s) == IF (s + 1) \div 2 < call.args.min_size THEN s ELSE (s + 1) \div 2

\* min_size changes no level of the returned pyramid along axis i
NoMinSize(i) ==
    \A level \in 1..call.args.levels :
        (level_size(level - 1, i) + 1) \div 2 >= call.args.min_size

\* C27: in the grids returned by pyramid(levels, dims, min_size), along a
\* selected axis the coarsest size is (original_size + m) / 2^levels rounded
\* to the nearest integer (halves upwards), m = 2^levels - 1 with
\* align_corners and 0 without, unless min_size intervenes; each level >= 1
\* has size (size[level - 1] + 1) // 2, or size[level - 1] where that is
\* below min_size, so the sizes never increase; along an axis not in dims
\* every level has the original size
C27_PyramidSizes ==
    (call.name = "pyramid" /\ call.out.kind = "dict")
    => LET levels == call.args.levels
           m      == IF call.self.align_corners THEN ipow2(levels) - 1 ELSE 0
       IN  \A i \in Axis(call.self.size) :
             IF (i - 1) \in selected(call.self, call.args.dims)
             THEN /\ NoMinSize(i)
                     => level_size(levels, i)
                          = (2 * (size(call.self)[i] + m) + ipow2(levels))
                              \div (2 * ipow2(levels))
                  /\ \A level \in 1..levels :
                       /\ level_size(level, i) = halved(level_size(level - 1, i))
                       /\ level_size(level, i) <= level_size(level - 1, i)
             ELSE \A level \in 0..levels : level_size(level, i) = size(call.self)[i]

C27_Witness ==
    /\ call.name = "pyramid" /\ call.out.kind = "dict"
    /\ call.args.levels = MaxLevels
    /\ call.args.dims = {0}
    /\ ndim(call.self) = 2
    /\ NoMinSize(1)
    /\ \A level \in 1..MaxLevels : level_size(level, 1) < level_size(level - 1, 1)
    /\ level_size(MaxLevels, 2) > 1

\* a resizing call with valid arguments on a grid with an axis of size 0
ResizedEmpty ==
    /\ call.name \in {"resize", "downsample", "upsample"}
    /\ \E i \in Axis(call.self.size) : eq(call.self.size[i], I(0))
    /\ call.name = "resize" => ~BadSize(call.args.size)

\* C28: resize, downsample and upsample leave an axis of stored size 0
\* untouched, under either policy: the call returns a grid, the size of that
\* axis stays 0 and its spacing is unchanged; a call which asks for the
\* stored size returns the grid itself
C28_EmptyAxis ==
    ResizedEmpty
    => /\ call.out.kind = "grid"
       /\ \A i \in Axis(call.self.size) :
            eq(call.self.size[i], I(0))
            => /\ eq(call.out.grid.size[i], I(0))
               /\ call.out.grid.spacing[i] = call.self.spacing[i]
       /\ call.out.grid.size = call.self.size => call.out.same

\* transform_vectors is called without to_grid or with a grid equal to self
SameGrid ==
    /\ call.name = "transform_vectors"
    /\ (call.args.to_grid = None \/ __eq__(call.args.to_grid[1], call.self))

\* the matrix transform(axes, to_axes, vectors=True) of the call
vector_matrix == transform(call.self, Some(call.args.axes), call.args.to_axes, None, TRUE)

\* neither end of the call is WORLD
Rescale ==
    /\ call.args.axes # WORLD
    /\ call.args.to_axes # Some(WORLD)

\* C29: without to_grid, or with to_grid equal to self, transform_vectors(v,
\* axes, to_axes) is the matrix transform(axes, to_axes, vectors=True)
\* applied to v; where neither axes is WORLD it is v times the diagonal of
\* that matrix; from WORLD to WORLD it returns v, whatever to_grid is
C29_TransformVectors ==
    /\ SameGrid
       => /\ call.out.kind = "tensor"
          /\ vector_matrix.kind = "tensor"
          /\ call.out.val = homogeneous_transform(vector_matrix.val, call.args.vectors)
          /\ Rescale
             => call.out.val = [i \in Axis(call.self.size) |->
                                  mul(vector_matrix.val.lin[i][i], call.args.vectors[i])]
    /\ (call.name = "transform_vectors" /\ call.args.axes = WORLD
        /\ call.args.to_axes \in {None, Some(WORLD)})
       => call.out.kind = "tensor" /\ call.out.val = call.args.vectors

C29_Witness ==
    /\ SameGrid
    /\ call.args.axes = CUBE_CORNERS /\ call.args.to_axes = Some(CUBE)
    /\ call.args.to_grid # None
    /\ \A i \in Axis(call.self.size) : size(call.self)[i] > 1
    /\ call.out.kind = "tensor"
    /\ call.out.val # call.args.vectors

\* C30: narrow(dim, start, length) raises IndexError for every dim outside
\* 0..ndim-1, dim = ndim included; for a valid dim it returns a grid whose
\* size along dim is length, with the other sizes, the spacing and the
\* direction unchanged and its origin at the world position of the index
\* which is start along dim and 0 elsewhere
C30_Narrow ==
    call.name = "narrow"
    => IF call.args.dim \notin 0..(ndim(call.self) - 1)
       THEN call.out.kind = "error" /\ call.out.err = "IndexError"
       ELSE /\ call.out.kind = "grid"
            /\ \A i \in Axis(call.self.size) :
                 size(call.out.grid)[i]
                   = IF i - 1 = call.args.dim THEN call.args.length ELSE size(call.self)[i]
            /\ call.out.grid.spacing = call.self.spacing
            /\ call.out.grid.direction = call.self.direction
            /\ allclose(origin(call.out.grid),
                        index_to_world(call.self,
                                       [i \in Axis(call.self.size) |->
                                          IF i - 1 = call.args.dim THEN I(call.args.start)
                                          ELSE I(0)]))

\* C21: a grid produced by crop, pad, center_crop, center_pad, narrow, pool
\* or region_of_interest has the align_corners of its source, in particular
\* align_corners=False for a source with align_corners=False
C21_KeepsAlignCorners ==
    (/\ call.name \in {"crop", "pad", "center_crop", "center_pad", "narrow", "pool",
                       "region_of_interest"}
     /\ call.out.kind = "grid")
    => call.out.grid.align_corners = call.self.align_corners

NextD == Pool \/ CropNum \/ PadNum \/ RegionOfInterest \/ CenterCrop \/ CenterPad \/ Narrow
         \/ TransformVectors

SpecD == Init /\ [][NextD]_vars

====
